---- MODULE Spec2Model ----
(***************************************************************************)
(* punktf: the deployed-item ledger (DeploymentBuilder / Deployment of     *)
(* src/deploy/deployment.rs) and the deploy command of the command line    *)
(* (handle_commands of crates/punktf-cli/main.rs).                         *)
(*                                                                         *)
(* Spec    : one DeploymentBuilder from Deployment::build() to success()   *)
(*           or failed(), under every sequence of ledger operations.       *)
(* SpecCli : one run of the deploy command, from the parsed options to the *)
(*           value handle_commands returns.                                *)
(* SpecExec: the loop of Executor::deploy over the profile's dotfile       *)
(*           entries, as the design describes it, on the ledger.           *)
(***************************************************************************)
EXTENDS Integers, Sequences, FiniteSets, TLC

\* ------------------------------------------------------------------ bounds

\* Target paths are 1..MaxPath.
MaxPath == 2

\* The wall clock runs from 0 (the instant the builder is created) to MaxTime.
MaxTime == 1

\* The source tree holds at most MaxProfile profile files.
MaxProfile == 2

\* The most dotfile entries in the profile one Executor::deploy runs over.
MaxEntries == 2

Paths == 1..MaxPath

Time == 0..MaxTime

\* ------------------------------------------------------------- data types

\* Option<T>
None == [some |-> FALSE]

Some(x) == [some |-> TRUE, val |-> x]

\* crate::Item, the dotfile entry a ledger Item holds; of its fields the ledger
\* reads only `priority: Option<Priority>`.
Dotfiles ==
    { [name |-> "d1", priority |-> None],
      [name |-> "d2", priority |-> Some(3)] }

\* ItemStatus: Success or Failed(reason); the ledger only asks is_success().
ItemStatuses == {"Success", "Failed"}

ItemStatus_is_success(status) == status = "Success"

\* DeployedItem { kind: DeployedItemKind::Item(item), status }
ItemEntry(item, status) == [kind |-> "Item", item |-> item, status |-> status]

\* DeployedItem { kind: DeployedItemKind::Child(parent), status }
ChildEntry(parent, status) == [kind |-> "Child", parent |-> parent, status |-> status]

\* Reasons given to DeploymentBuilder::failed.
Reasons == {"aborted", "io error"}

\* DeploymentStatus
DeploymentStatus_success == [tag |-> "Success"]

DeploymentStatus_failed(reason) == [tag |-> "Failed", reason |-> reason]

\* self == &Self::Success
is_success(status) == status = DeploymentStatus_success

\* matches!(self, &Self::Failed(_))
is_failed(status) == status.tag = "Failed"

\* How a call ends: it returns a value, it never returns, or it panics.
Returned(v) == [kind |-> "return", value |-> v]

Diverges == [kind |-> "diverge"]

Panics == [kind |-> "panic"]

\* ----------------------------------------------------------------- state

VARIABLES
    now,         \* the wall clock read by Utc::now()
    phase,       \* "building": the builder is live; "consumed": success()/failed()
                 \* took it; "hung": a lookup is in a loop it never leaves;
                 \* "panicked": a call unwound the thread
    time_start,  \* DeploymentBuilder.time_start
    items,       \* DeploymentBuilder.items: HashMap<PathBuf, DeployedItem>
    deployment,  \* the Deployment that success()/failed() returned, or None
    ret,         \* the last call on the builder: its name, its arguments and
                 \* how it ended
    written,     \* history: per path, the arguments of the last add_item/add_child
    pc,          \* where handle_commands stands
    opts,        \* opt::Deploy { profile, target, dry_run }
    env_target,  \* what util::get_target_path() reads from the environment
    layers,      \* the LayeredProfile builder: its layers, first added first
    resolved,    \* what resolve_profile returned, once it has
    profile,     \* builder.finish()
    environ,     \* the process environment written by std::env::set_var
    deployed,    \* what Executor::deploy returned, once it was called
    result,      \* what handle_commands returned
    todo,        \* the dotfile entries Executor::deploy has still to process
    log          \* history: what the executor did with each entry, in order

ledgerVars == <<now, phase, time_start, items, deployment, ret, written>>

cliVars == <<pc, opts, env_target, layers, resolved, profile, environ, deployed, result>>

execVars == <<todo, log>>

vars == <<ledgerVars, cliVars, execVars>>

NoRet == [op |-> "none"]

EmptyMap == [p \in {} |-> None]

\* HashMap::insert
insert(map, key, value) ==
    [k \in DOMAIN map \cup {key} |-> IF k = key THEN value ELSE map[k]]

\* HashMap::get
get(map, key) == IF key \in DOMAIN map THEN Some(map[key]) ELSE None

\* ------------------------------------------------- DeploymentBuilder (pure)

\* Variant: a path written again loses the Child entries that point at it.
add_item_dropping_children(its, path, item, status) ==
    LET kept == { q \in DOMAIN its : ~(its[q].kind = "Child" /\ its[q].parent = path) }
    IN  insert([q \in kept |-> its[q]], path, ItemEntry(item, status))

add_item(its, path, item, status) == insert(its, path, ItemEntry(item, status))

\* Variant: entry(path).or_insert(..), which keeps an entry already there.
add_child_keeping(its, path, parent, status) ==
    IF path \in DOMAIN its THEN its ELSE insert(its, path, ChildEntry(parent, status))

add_child(its, path, parent, status) == insert(its, path, ChildEntry(parent, status))

contains(its, path) == path \in DOMAIN its

\* Variant: the status test of get_deployed_item copied into get_item's loop.
RECURSIVE get_item_loop_status(_, _, _)
get_item_loop_status(its, value, hops) ==
    IF hops = 0 THEN Diverges
    ELSE IF ~ItemStatus_is_success(value.status) THEN Returned(None)
    ELSE IF value.kind = "Item" THEN Returned(Some(value.item))
    ELSE LET next == get(its, value.parent)
         IN  IF ~next.some THEN Returned(None)
             ELSE get_item_loop_status(its, next.val, hops - 1)

\* The loop of get_item from the entry `value` on.  The map is borrowed
\* unchanged for the whole call, so a walk that has made more hops than the
\* map has entries is on an entry it has been on before and repeats for ever:
\* `hops` running out is the loop that never returns, not a cut.
RECURSIVE get_item_loop(_, _, _)
get_item_loop(its, value, hops) ==
    IF hops = 0 THEN Diverges
    ELSE IF value.kind = "Item" THEN Returned(Some(value.item))
    ELSE LET next == get(its, value.parent)
         IN  IF ~next.some THEN Returned(None)
             ELSE get_item_loop(its, next.val, hops - 1)

get_item(its, path) ==
    LET first == get(its, path)
    IN  IF ~first.some THEN Returned(None)
        ELSE get_item_loop(its, first.val, Cardinality(DOMAIN its) + 1)

\* Variant: the parent read as self.items[parent_path], which panics on a
\* path the map does not hold.
RECURSIVE get_deployed_item_loop_index(_, _, _)
get_deployed_item_loop_index(its, value, hops) ==
    IF hops = 0 THEN Diverges
    ELSE IF ~ItemStatus_is_success(value.status) THEN Returned(None)
    ELSE IF value.kind = "Item" THEN Returned(Some(value.item))
    ELSE IF value.parent \notin DOMAIN its THEN Panics
    ELSE get_deployed_item_loop_index(its, its[value.parent], hops - 1)

\* Variant: the status tested on Child entries only, not on the Item the chain
\* ends at.
RECURSIVE get_deployed_item_loop_child_status(_, _, _)
get_deployed_item_loop_child_status(its, value, hops) ==
    IF hops = 0 THEN Diverges
    ELSE IF value.kind = "Item" THEN Returned(Some(value.item))
    ELSE IF ~ItemStatus_is_success(value.status) THEN Returned(None)
    ELSE LET next == get(its, value.parent)
         IN  IF ~next.some THEN Returned(None)
             ELSE get_deployed_item_loop_child_status(its, next.val, hops - 1)

\* The loop of get_deployed_item: as get_item's, with the status test first.
RECURSIVE get_deployed_item_loop(_, _, _)
get_deployed_item_loop(its, value, hops) ==
    IF hops = 0 THEN Diverges
    ELSE IF ~ItemStatus_is_success(value.status) THEN Returned(None)
    ELSE IF value.kind = "Item" THEN Returned(Some(value.item))
    ELSE LET next == get(its, value.parent)
         IN  IF ~next.some THEN Returned(None)
             ELSE get_deployed_item_loop(its, next.val, hops - 1)

\* Variant: only the queried entry's own status is tested.
get_deployed_item_own_status(its, path) ==
    LET first == get(its, path)
    IN  IF ~first.some THEN Returned(None)
        ELSE IF ~ItemStatus_is_success(first.val.status) THEN Returned(None)
        ELSE get_item(its, path)

get_deployed_item(its, path) ==
    LET first == get(its, path)
    IN  IF ~first.some THEN Returned(None)
        ELSE get_deployed_item_loop(its, first.val, Cardinality(DOMAIN its) + 1)

\* Variant: the priority taken from get_item, whatever the statuses.
get_priority_any_status(its, path) ==
    LET r == get_item(its, path)
    IN  IF r.kind # "return" THEN r
        ELSE IF r.value.some THEN Returned(Some(r.value.val.priority))
        ELSE Returned(None)

\* Variant: the deployed item found, its priority dropped.
get_priority_dropped(its, path) ==
    LET r == get_deployed_item(its, path)
    IN  IF r.kind # "return" THEN r
        ELSE IF r.value.some THEN Returned(Some(None))
        ELSE Returned(None)

\* self.get_deployed_item(path).map(|item| item.priority)
get_priority(its, path) ==
    LET r == get_deployed_item(its, path)
    IN  IF r.kind # "return" THEN r
        ELSE IF r.value.some THEN Returned(Some(r.value.val.priority))
        ELSE Returned(None)

\* Variant: deployed means the whole chain is, as get_deployed_item has it.
is_deployed_chain(its, path) ==
    LET e == get(its, path)
        r == get_deployed_item(its, path)
    IN  IF ~e.some THEN Returned(None)
        ELSE IF r.kind # "return" THEN r
        ELSE Returned(Some(r.value.some))

\* self.items.get(path).map(|item| item.status.is_success())
is_deployed(its, path) ==
    LET e == get(its, path)
    IN  IF e.some THEN Returned(Some(ItemStatus_is_success(e.val.status)))
        ELSE Returned(None)

\* Variant: a Success record keeps only the entries that succeeded.
success_dropping_failed(start, its, utc_now) ==
    [ time_start |-> start,
      time_end   |-> utc_now,
      status     |-> DeploymentStatus_success,
      items      |-> [p \in {q \in DOMAIN its : its[q].status = "Success"} |-> its[p]] ]

\* Variant: the two times stored the wrong way round.
success_swapped_times(start, its, utc_now) ==
    [ time_start |-> utc_now,
      time_end   |-> start,
      status     |-> DeploymentStatus_success,
      items      |-> its ]

\* DeploymentBuilder::success, with `utc_now` the clock's reading in it
success(start, its, utc_now) ==
    [ time_start |-> start,
      time_end   |-> utc_now,
      status     |-> DeploymentStatus_success,
      items      |-> its ]

\* Variant: a Failed record marks every entry Failed.
failed_marking_all(start, its, reason, utc_now) ==
    [ time_start |-> start,
      time_end   |-> utc_now,
      status     |-> DeploymentStatus_failed(reason),
      items      |-> [p \in DOMAIN its |-> [its[p] EXCEPT !.status = "Failed"]] ]

\* DeploymentBuilder::failed
failed(start, its, reason, utc_now) ==
    [ time_start |-> start,
      time_end   |-> utc_now,
      status     |-> DeploymentStatus_failed(reason),
      items      |-> its ]

\* Deployment::duration
duration(d) == d.time_end - d.time_start

\* ------------------------------------------------------------------ steps

\* Deployment::build() / DeploymentBuilder::default(): the builder reads the
\* clock and starts with an empty map.  Time is counted from that reading.
BuilderInit ==
    /\ now = 0
    /\ phase = "building"
    /\ time_start = now
    /\ items = EmptyMap
    /\ deployment = None
    /\ ret = NoRet
    /\ written = [p \in Paths |-> None]

\* The wall clock moves on; it is taken never to be set back during a run.
Tick ==
    /\ now < MaxTime
    /\ now' = now + 1
    /\ UNCHANGED <<phase, time_start, items, deployment, ret, written>>
    /\ UNCHANGED <<cliVars, execVars>>

\* The command line is not part of Spec.
CliOff ==
    /\ pc = "off"
    /\ opts = None
    /\ env_target = None
    /\ layers = <<>>
    /\ resolved = None
    /\ profile = None
    /\ environ = None
    /\ deployed = None
    /\ result = None

\* The executor's loop is not part of Spec.
ExecOff ==
    /\ todo = 0
    /\ log = <<>>

Init == BuilderInit /\ CliOff /\ ExecOff

\* What HashMap::insert found under the key: the kind of the entry it replaced.
Replaced(map, key) == IF key \in DOMAIN map THEN map[key].kind ELSE "nothing"

AddItem(path, item, status) ==
    /\ phase = "building"
    /\ items' = add_item(items, path, item, status)
    /\ written' = [written EXCEPT ![path] = Some(ItemEntry(item, status))]
    /\ ret' = [op |-> "add_item", path |-> path, replaced |-> Replaced(items, path)]
    /\ UNCHANGED <<now, phase, time_start, deployment>>
    /\ UNCHANGED <<cliVars, execVars>>

AddChild(path, parent, status) ==
    /\ phase = "building"
    /\ items' = add_child(items, path, parent, status)
    /\ written' = [written EXCEPT ![path] = Some(ChildEntry(parent, status))]
    /\ ret' = [op |-> "add_child", path |-> path, replaced |-> Replaced(items, path)]
    /\ UNCHANGED <<now, phase, time_start, deployment>>
    /\ UNCHANGED <<cliVars, execVars>>

\* A query on &self: it ends as `out` says.  A call that never returns leaves
\* the single thread in its loop, a panic unwinds it: either way nothing more
\* happens to the builder.
Query(op, path, out) ==
    /\ phase = "building"
    /\ ret' = [op |-> op, path |-> path, out |-> out]
    /\ phase' = CASE out.kind = "return" -> phase
                  [] out.kind = "diverge" -> "hung"
                  [] OTHER -> "panicked"
    /\ UNCHANGED <<now, time_start, items, deployment, written>>
    /\ UNCHANGED <<cliVars, execVars>>

Contains(path) == Query("contains", path, Returned(contains(items, path)))

GetItem(path) == Query("get_item", path, get_item(items, path))

GetDeployedItem(path) == Query("get_deployed_item", path, get_deployed_item(items, path))

GetPriority(path) == Query("get_priority", path, get_priority(items, path))

IsDeployed(path) == Query("is_deployed", path, is_deployed(items, path))

\* success(self) / failed(self, reason) move the builder into the Deployment.
\* The moved-from fields keep the value they had: nothing can act on them.
Success ==
    /\ phase = "building"
    /\ deployment' = Some(success(time_start, items, now))
    /\ phase' = "consumed"
    /\ ret' = [op |-> "success"]
    /\ UNCHANGED <<now, time_start, items, written>>
    /\ UNCHANGED <<cliVars, execVars>>

Failed(reason) ==
    /\ phase = "building"
    /\ deployment' = Some(failed(time_start, items, reason, now))
    /\ phase' = "consumed"
    /\ ret' = [op |-> "failed", reason |-> reason]
    /\ UNCHANGED <<now, time_start, items, written>>
    /\ UNCHANGED <<cliVars, execVars>>

Next ==
    \/ Tick
    \/ \E path \in Paths, item \in Dotfiles, status \in ItemStatuses :
           AddItem(path, item, status)
    \/ \E path \in Paths, parent \in Paths, status \in ItemStatuses :
           AddChild(path, parent, status)
    \/ \E path \in Paths : Contains(path)
    \/ \E path \in Paths : GetItem(path)
    \/ \E path \in Paths : GetDeployedItem(path)
    \/ \E path \in Paths : GetPriority(path)
    \/ \E path \in Paths : IsDeployed(path)
    \/ Success
    \/ \E reason \in Reasons : Failed(reason)

Spec == Init /\ [][Next]_vars

\* ------------------------------------------------- the deploy command line

\* Target roots a layer may name.
Targets == {"/a", "/b", "/c"}

\* Profile files the source tree may hold, by name.
ProfileNameList == <<"windows", "base", "linux", "arch">>

ProfileNames == { ProfileNameList[i] : i \in 1..MaxProfile }

\* SimpleProfile: of its fields the deploy command sets and reads `target`;
\* the two layers it makes itself leave the others at Default::default().
SimpleProfile(target) == [target |-> target]

\* A profile file of the source tree: absent, unparsable, or a profile with its
\* target and the profile it imports, if any.
ProfileFiles ==
    { [state |-> "missing"], [state |-> "invalid"] }
    \cup { [state |-> "ok", target |-> t, imports |-> im] :
             t \in {None, Some("/b"), Some("/c")},
             im \in {<<>>} \cup { <<n>> : n \in ProfileNames } }

SourceTrees == [ProfileNames -> ProfileFiles]

Ok(v) == [ok |-> TRUE, val |-> v]

Err(e) == [ok |-> FALSE, err |-> e]

\* LayeredProfileBuilder::add: the layer goes below the ones added before it.
LayeredProfileBuilder_add(builder, name, simple) ==
    Append(builder, [name |-> name, profile |-> simple])

\* LayeredProfileBuilder::finish
LayeredProfileBuilder_finish(builder) == [layers |-> builder]

\* LayeredProfile::target_path: the target of the first layer that has one.
target_path(layered) ==
    LET defined == { i \in DOMAIN layered.layers : layered.layers[i].profile.target.some }
    IN  IF defined = {} THEN None
        ELSE layered.layers[CHOOSE i \in defined : \A j \in defined : i <= j].profile.target

\* resolve_profile: the named profile, then the profile it imports, and so on,
\* each below its importer; a name met again while it is being resolved is a
\* cycle.
RECURSIVE resolve_profile(_, _, _, _)
resolve_profile(builder, tree, name, visiting) ==
    IF name \in visiting THEN Err("Cycle")
    ELSE IF tree[name].state = "missing" THEN Err("NotFound")
    ELSE IF tree[name].state = "invalid" THEN Err("Invalid")
    ELSE LET added == LayeredProfileBuilder_add(builder, name,
                                                SimpleProfile(tree[name].target))
         IN  IF tree[name].imports = <<>> THEN Ok(added)
             ELSE resolve_profile(added, tree, tree[name].imports[1],
                                  visiting \cup {name})

\* Executor::deploy: a Deployment finalized by success() or by failed(), or an
\* error.
DeployResults ==
    LET ledgers == {EmptyMap}
                   \cup { add_item(EmptyMap, 1, d, st) : d \in Dotfiles, st \in ItemStatuses }
    IN  { Ok(success(0, its, 0)) : its \in ledgers }
        \cup { Ok(failed(0, its, r, 0)) : its \in ledgers, r \in Reasons }
        \cup { Err("hook failed") }

\* Variant: the layer made for the command line's target left at its default.
target_cli_profile_default(target) == SimpleProfile(None)

\* SimpleProfile { target, ..Default::default() }
target_cli_profile(target) == SimpleProfile(target)

\* SimpleProfile { target: Some(util::get_target_path()), ..Default::default() }
target_env_profile(path) == SimpleProfile(Some(path))

\* No builder exists until Executor::deploy makes one.
BuilderOff ==
    /\ now = 0
    /\ phase = "off"
    /\ time_start = 0
    /\ items = EmptyMap
    /\ deployment = None
    /\ ret = NoRet
    /\ written = [p \in Paths |-> None]

\* handle_commands is entered with the parsed options; the environment holds
\* some target.
InitCli ==
    /\ BuilderOff
    /\ ExecOff
    /\ pc = "start"
    /\ opts \in [ profile : ProfileNames,
                  target  : {None} \cup { Some(t) : t \in {"/a", "/b"} },
                  dry_run : BOOLEAN ]
    /\ env_target \in {"/b", "/c"}
    /\ layers = <<>>
    /\ resolved = None
    /\ profile = None
    /\ environ = None
    /\ deployed = None
    /\ result = None

\* PunktfSource::from_root(source.into())?
FromRoot ==
    /\ pc = "start"
    /\ \E ok \in BOOLEAN :
           IF ok THEN pc' = "source" /\ result' = result
                 ELSE pc' = "done" /\ result' = Some(Err("no such source"))
    /\ UNCHANGED <<opts, env_target, layers, resolved, profile, environ, deployed>>
    /\ UNCHANGED <<ledgerVars, execVars>>

\* LayeredProfile::build(), and the command line's target added on top
AddCliLayer ==
    /\ pc = "source"
    /\ layers' = LayeredProfileBuilder_add(<<>>, "target_cli_argument",
                                           target_cli_profile(opts.target))
    /\ pc' = "cli_layer"
    /\ UNCHANGED <<opts, env_target, resolved, profile, environ, deployed, result>>
    /\ UNCHANGED <<ledgerVars, execVars>>

\* Variant: the Result of resolve_profile dropped (`let _ = ...`).
ResolveProfileUnchecked ==
    /\ pc = "cli_layer"
    /\ \E tree \in SourceTrees :
           LET r == resolve_profile(layers, tree, opts.profile, {})
           IN  /\ resolved' = Some(IF r.ok THEN Ok(SubSeq(r.val, 2, Len(r.val))) ELSE r)
               /\ layers' = IF r.ok THEN r.val ELSE layers
    /\ pc' = "resolved"
    /\ UNCHANGED <<opts, env_target, profile, environ, deployed, result>>
    /\ UNCHANGED <<ledgerVars, execVars>>

\* resolve_profile(&mut builder, &ptf_src, &profile_name, ..)?: over whatever
\* profile files the source tree holds.  `resolved` keeps the layers it added.
ResolveProfile ==
    /\ pc = "cli_layer"
    /\ \E tree \in SourceTrees :
           LET r == resolve_profile(layers, tree, opts.profile, {})
           IN  /\ resolved' = Some(IF r.ok THEN Ok(SubSeq(r.val, 2, Len(r.val))) ELSE r)
               /\ IF r.ok
                  THEN layers' = r.val /\ pc' = "resolved" /\ result' = result
                  ELSE layers' = layers /\ pc' = "done" /\ result' = Some(Err(r.err))
    /\ UNCHANGED <<opts, env_target, profile, environ, deployed>>
    /\ UNCHANGED <<ledgerVars, execVars>>

\* The environment's target added at the bottom
AddEnvLayer ==
    /\ pc = "resolved"
    /\ layers' = LayeredProfileBuilder_add(layers, "target_environment_variable",
                                           target_env_profile(env_target))
    /\ pc' = "env_layer"
    /\ UNCHANGED <<opts, env_target, resolved, profile, environ, deployed, result>>
    /\ UNCHANGED <<ledgerVars, execVars>>

\* builder.finish(), and the three PUNKTF_CURRENT_* variables set
Finish ==
    /\ pc = "env_layer"
    /\ profile' = Some(LayeredProfileBuilder_finish(layers))
    /\ environ' = Some([ PUNKTF_CURRENT_SOURCE  |-> Some("source"),
                         PUNKTF_CURRENT_TARGET  |->
                             target_path(LayeredProfileBuilder_finish(layers)),
                         PUNKTF_CURRENT_PROFILE |-> Some(opts.profile) ])
    /\ pc' = "profile"
    /\ UNCHANGED <<opts, env_target, layers, resolved, deployed, result>>
    /\ UNCHANGED <<ledgerVars, execVars>>

\* Executor::new(options, util::ask_user_merge).deploy(ptf_src, &profile): a
\* run that returns a Deployment has made a builder and finalized it.
Deploy ==
    /\ pc = "profile"
    /\ \E r \in DeployResults :
           /\ deployed' = Some(r)
           /\ IF r.ok
              THEN /\ phase' = "consumed"
                   /\ time_start' = r.val.time_start
                   /\ items' = r.val.items
                   /\ deployment' = Some(r.val)
              ELSE UNCHANGED <<phase, time_start, items, deployment>>
    /\ pc' = "deployed"
    /\ UNCHANGED <<now, ret, written>>
    /\ UNCHANGED <<opts, env_target, layers, resolved, profile, environ, result>>
    /\ UNCHANGED execVars

\* match deployment { Ok(..) => .., Err(err) => Err(err) }
Return ==
    /\ pc = "deployed"
    /\ result' = Some(IF deployed.val.ok
                      THEN IF is_failed(deployed.val.val.status)
                           THEN Err("Some dotfiles failed to deploy")
                           ELSE Ok("unit")
                      ELSE Err(deployed.val.err))
    /\ pc' = "done"
    /\ UNCHANGED <<opts, env_target, layers, resolved, profile, environ, deployed>>
    /\ UNCHANGED <<ledgerVars, execVars>>

NextCli ==
    \/ FromRoot
    \/ AddCliLayer
    \/ ResolveProfile
    \/ AddEnvLayer
    \/ Finish
    \/ Deploy
    \/ Return

SpecCli == InitCli /\ [][NextCli]_vars

\* ------------------------------------------- Executor::deploy, the loop

\* The priorities a dotfile entry is declared with: none, 3 or 5.
Priorities == {None, Some(3), Some(5)}

\* The entries of the profile are named after their place in it.
EntryNames == <<"first", "second", "third", "fourth">>

\* The dotfile entry declared at place i with priority pr.
Entry(i, pr) == [name |-> EntryNames[i], priority |-> pr]

MergeStrategies == {"Overwrite", "Keep", "Ask"}

\* What the conflict callback answers.
MergeActions == {"replace", "keep", "abort"}

\* Option<Priority> is ordered with None below every Some(n).
PriorityRank(pr) == IF pr.some THEN pr.val + 1 ELSE 0

\* Step 3: the target is claimed when the ledger holds a deployed entry for
\* it whose priority is higher than or equal to this entry's.
Superseded(its, target, pr) ==
    LET other == get_priority(its, target)
    IN  /\ other.kind = "return"
        /\ other.value.some
        /\ PriorityRank(other.value.val) >= PriorityRank(pr)

\* Step 4: the action the merge strategy gives; the callback is asked only
\* under Ask and only when the target exists.
MergeOutcome(strategy, exists, answer) ==
    IF ~exists THEN "deploy"
    ELSE CASE strategy = "Overwrite" -> "deploy"
           [] strategy = "Keep" -> "keep"
           [] OTHER -> CASE answer = "replace" -> "deploy"
                         [] answer = "keep" -> "keep"
                         [] OTHER -> "abort"

\* Steps 3 to 5 for one entry: what becomes of it.  io is what the copy or
\* the rendering of step 5 ends as.
Decide(its, target, pr, strategy, exists, answer, io) ==
    IF Superseded(its, target, pr) THEN "superseded"
    ELSE LET m == MergeOutcome(strategy, exists, answer)
         IN  CASE m = "abort" -> "abort"
               [] m = "keep" -> "kept"
               [] OTHER -> IF io = "ok" THEN "ok" ELSE "err"

\* Step 6: the ItemStatus recorded.  The design does not say which status a
\* kept target is recorded with: either.
RecordedStatuses(how) ==
    CASE how = "ok" -> {"Success"}
      [] how = "kept" -> ItemStatuses
      [] OTHER -> {"Failed"}

\* Executor::deploy has made its builder and stands before the first of up to
\* MaxEntries entries.
InitExec ==
    /\ BuilderInit
    /\ CliOff
    /\ todo \in 0..MaxEntries
    /\ log = <<>>

\* One turn of the loop that ends with a record in the ledger: the entry is
\* deployed, fails, is kept or is superseded, and the loop goes on.
DeployEntry(target, pr, strategy, exists, answer, io, status) ==
    LET entry == Entry(Len(log) + 1, pr)
        how == Decide(items, target, pr, strategy, exists, answer, io)
    IN  /\ phase = "building"
        /\ todo > 0
        /\ how # "abort"
        /\ status \in RecordedStatuses(how)
        /\ items' = add_item(items, target, entry, status)
        /\ written' = [written EXCEPT ![target] = Some(ItemEntry(entry, status))]
        /\ ret' = [op |-> "add_item", path |-> target, replaced |-> Replaced(items, target)]
        /\ log' = Append(log, [target |-> target, item |-> entry, how |-> how,
                               status |-> status])
        /\ todo' = todo - 1
        /\ UNCHANGED <<now, phase, time_start, deployment>>
        /\ UNCHANGED cliVars

\* The turn of the loop in which the conflict callback answers abort-all: the
\* loop is left and the builder finalized with failed().
AbortAll(target, pr, strategy, exists, answer, io) ==
    LET entry == Entry(Len(log) + 1, pr)
        how == Decide(items, target, pr, strategy, exists, answer, io)
    IN  /\ phase = "building"
        /\ todo > 0
        /\ how = "abort"
        /\ deployment' = Some(failed(time_start, items, "aborted", now))
        /\ phase' = "consumed"
        /\ ret' = [op |-> "failed", reason |-> "aborted"]
        /\ log' = Append(log, [target |-> target, item |-> entry, how |-> how,
                               status |-> "none"])
        /\ todo' = todo - 1
        /\ UNCHANGED <<now, time_start, items, written>>
        /\ UNCHANGED cliVars

\* The loop has run over every entry: the builder is finalized with success().
FinishRun ==
    /\ phase = "building"
    /\ todo = 0
    /\ deployment' = Some(success(time_start, items, now))
    /\ phase' = "consumed"
    /\ ret' = [op |-> "success"]
    /\ UNCHANGED <<now, time_start, items, written>>
    /\ UNCHANGED cliVars
    /\ UNCHANGED execVars

NextExec ==
    \/ \E target \in Paths, pr \in Priorities, strategy \in MergeStrategies,
          exists \in BOOLEAN, answer \in MergeActions, io \in {"ok", "err"},
          status \in ItemStatuses :
           DeployEntry(target, pr, strategy, exists, answer, io, status)
    \/ \E target \in Paths, pr \in Priorities, strategy \in MergeStrategies,
          exists \in BOOLEAN, answer \in MergeActions, io \in {"ok", "err"} :
           AbortAll(target, pr, strategy, exists, answer, io)
    \/ FinishRun

SpecExec == InitExec /\ [][NextExec]_vars

\* ------------------------------------------- what the claims speak about

\* The ledger: the builder's map, and the record's once the builder is moved.
Ledger == IF deployment.some THEN deployment.val.items ELSE items

\* The paths on the Child chain from `path`: `path`, the parent its entry
\* names, that one's parent, and so on (a least fixed point, computed without
\* the lookups' loops).
ChainStep(its, S) ==
    S \cup { its[q].parent : q \in { x \in S \cap DOMAIN its : its[x].kind = "Child" } }

RECURSIVE ChainClosure(_, _)
ChainClosure(its, S) ==
    IF ChainStep(its, S) = S THEN S ELSE ChainClosure(its, ChainStep(its, S))

Chain(its, path) == ChainClosure(its, {path})

ChainRoots(its, path) == { q \in Chain(its, path) \cap DOMAIN its : its[q].kind = "Item" }

\* Some path on the chain has no entry: `path` itself, or a parent named on it.
ChainBroken(its, path) == \E q \in Chain(its, path) : q \notin DOMAIN its

\* Every path on the chain has an entry and the chain ends at an Item.
ChainComplete(its, path) ==
    /\ Chain(its, path) \subseteq DOMAIN its
    /\ ChainRoots(its, path) # {}

\* The chain neither ends at an Item nor misses a link: it runs in a circle.
ChainCyclic(its, path) == ~ChainBroken(its, path) /\ ~ChainComplete(its, path)

RootItem(its, path) == its[CHOOSE q \in ChainRoots(its, path) : TRUE].item

ChainDeployed(its, path) ==
    /\ ChainComplete(its, path)
    /\ \A q \in Chain(its, path) : its[q].status = "Success"

ReturnsSome(out) == out.kind = "return" /\ out.value.some

LookupOps == {"get_item", "get_deployed_item", "get_priority"}

AddOps == {"add_item", "add_child"}

\* The map with the status of every entry replaced as f says.
Restatus(its, f) == [p \in DOMAIN its |-> [its[p] EXCEPT !.status = f[p]]]

\* ------------------------------------------------------------------ claims

\* C1: get_deployed_item(p) returns an entry if and only if every path on the
\* chain from p up to the root Item has an entry with status Success, and the
\* entry it returns is the root Item's dotfile entry.
C1_DeployedItemIffChainSuccess ==
    ret.op = "get_deployed_item" =>
        /\ ReturnsSome(ret.out) <=> ChainDeployed(items, ret.path)
        /\ ChainDeployed(items, ret.path) =>
               ret.out = Returned(Some(RootItem(items, ret.path)))

\* C1 witness: get_deployed_item on a Child returned its parent Item's entry.
C1_Witness ==
    /\ ret.op = "get_deployed_item"
    /\ ret.path \in DOMAIN items
    /\ items[ret.path].kind = "Child"
    /\ items[ret.path].parent # ret.path
    /\ ReturnsSome(ret.out)

\* C2: on a path whose chain is complete down to an Item, get_item returns the
\* root Item's dotfile entry; and whatever the ledger, replacing the statuses
\* of its entries in any way leaves get_item's result the same.
C2_GetItemIgnoresStatus ==
    ret.op = "get_item" =>
        /\ ChainComplete(items, ret.path) =>
               ret.out = Returned(Some(RootItem(items, ret.path)))
        /\ \A f \in [DOMAIN items -> ItemStatuses] :
               get_item(Restatus(items, f), ret.path) = ret.out

\* C2 witness: get_item on a Failed Child of a Failed Item returned the Item's
\* entry.
C2_Witness ==
    /\ ret.op = "get_item"
    /\ ret.path \in DOMAIN items
    /\ items[ret.path].kind = "Child"
    /\ items[ret.path].status = "Failed"
    /\ ChainComplete(items, ret.path)
    /\ \A q \in Chain(items, ret.path) : items[q].status = "Failed"
    /\ ReturnsSome(ret.out)

\* C3: every call of get_item and of get_deployed_item returns, whatever
\* add_item and add_child calls came before it.
C3_LookupsTerminate ==
    ret.op \in {"get_item", "get_deployed_item"} => ret.out.kind = "return"

\* C4: a lookup (get_item, get_deployed_item, get_priority) on a path whose
\* chain misses a link - the path itself or a parent named on the chain has no
\* entry - returns none, without a panic, and leaves the builder as it was.
C4_MissingLinkIsNone ==
    [][ (ret'.op \in LookupOps /\ ChainBroken(items, ret'.path)) =>
            /\ ret'.out = Returned(None)
            /\ items' = items
            /\ time_start' = time_start
            /\ phase' = "building" ]_vars

\* C4 witness: a lookup on a Success Child whose parent has no entry returned
\* none.
C4_Witness ==
    /\ ret.op \in LookupOps
    /\ ret.path \in DOMAIN items
    /\ items[ret.path].status = "Success"
    /\ ChainBroken(items, ret.path)
    /\ ret.out = Returned(None)
    /\ phase = "building"

\* C5: the ledger holds an entry for exactly the paths that were written, and
\* each entry is the one the last add_item or add_child on its path wrote.
C5_LastWriteWins ==
    /\ DOMAIN items = { p \in Paths : written[p].some }
    /\ \A p \in DOMAIN items : items[p] = written[p].val

\* C5 witness: an add_child replaced an Item, next to another path's Item.
C5_Witness ==
    /\ ret.op = "add_child"
    /\ ret.replaced = "Item"
    /\ items[ret.path].kind = "Child"
    /\ \E q \in DOMAIN items : q # ret.path /\ items[q].kind = "Item"

\* C6 as stated: once a status is recorded for a path, no later operation
\* changes the status recorded for that path.
C6_StatusNeverChanges ==
    [][ \A p \in DOMAIN Ledger :
            p \in DOMAIN Ledger' /\ Ledger'[p].status = Ledger[p].status ]_vars

\* C6 amended: the status recorded for a path is changed only by an add_item or
\* add_child on that same path, which records the status it is given; queries,
\* finalization and writes to other paths leave it as it is.
C6_StatusChangedOnlyByWriteToPath ==
    [][ \A p \in DOMAIN Ledger :
            \/ p \in DOMAIN Ledger' /\ Ledger'[p].status = Ledger[p].status
            \/ /\ phase = "building"
               /\ ret'.op \in AddOps
               /\ ret'.path = p
               /\ Ledger'[p] = written'[p].val ]_vars

\* C6 witness: a record finalized as Failed over a ledger that holds a Success
\* and a Failed entry.
C6_Witness ==
    /\ phase = "consumed"
    /\ ret.op = "failed"
    /\ \E p, q \in DOMAIN Ledger :
           Ledger[p].status = "Success" /\ Ledger[q].status = "Failed"

\* C7: success() and failed(reason) freeze the builder as it is: the record has
\* the builder's map and start time, and its status is Success, or Failed with
\* the reason given.
C7_FinalizeFreezesLedger ==
    [][ (phase = "building" /\ phase' = "consumed") =>
            /\ deployment'.some
            /\ deployment'.val.items = items
            /\ deployment'.val.time_start = time_start
            /\ ret'.op \in {"success", "failed"}
            /\ ret'.op = "success" =>
                   deployment'.val.status = DeploymentStatus_success
            /\ ret'.op = "failed" =>
                   deployment'.val.status = DeploymentStatus_failed(ret'.reason) ]_vars

\* C7 witness: a Success record that holds a Failed item next to a Success one.
C7_Witness ==
    /\ phase = "consumed"
    /\ deployment.some
    /\ is_success(deployment.val.status)
    /\ \E p, q \in DOMAIN deployment.val.items :
           /\ deployment.val.items[p].status = "Failed"
           /\ deployment.val.items[q].status = "Success"

\* C8: a record made by success() is_success() and not is_failed(), one made by
\* failed(reason) is_failed() and not is_success(), and the duration of either
\* is not negative.
C8_StatusAndDuration ==
    deployment.some =>
        /\ duration(deployment.val) >= 0
        /\ ret.op \in {"success", "failed"}
        /\ ret.op = "success" =>
               is_success(deployment.val.status) /\ ~is_failed(deployment.val.status)
        /\ ret.op = "failed" =>
               is_failed(deployment.val.status) /\ ~is_success(deployment.val.status)

\* C8 witness: success() after the clock moved and after ledger operations.
C8_Witness ==
    /\ deployment.some
    /\ ret.op = "success"
    /\ duration(deployment.val) > 0
    /\ deployment.val.items # EmptyMap

\* The layers resolve_profile added: the named profile and its import chain.
ProfileChain == resolved.val.val

\* The target of the first profile of the chain that has one, if any has.
ChainTarget ==
    LET defined == { i \in DOMAIN ProfileChain : ProfileChain[i].profile.target.some }
    IN  IF defined = {} THEN None
        ELSE ProfileChain[CHOOSE i \in defined : \A j \in defined : i <= j].profile.target

\* C9: the finished profile holds the command line's layer, then the profile
\* chain, then the environment's layer; its target is the command line's if
\* the command line gives one, else the chain's if a profile of the chain has
\* one, else the environment's.
C9_LayerOrderAndTarget ==
    profile.some =>
        /\ profile.val.layers =
               <<[name |-> "target_cli_argument", profile |-> SimpleProfile(opts.target)]>>
               \o ProfileChain
               \o <<[name |-> "target_environment_variable",
                     profile |-> SimpleProfile(Some(env_target))]>>
        /\ target_path(profile.val) =
               IF opts.target.some THEN opts.target
               ELSE IF ChainTarget.some THEN ChainTarget
               ELSE Some(env_target)
        /\ environ.val.PUNKTF_CURRENT_TARGET = target_path(profile.val)

\* C9 witness: the command line, a profile of a two-profile chain and the
\* environment name three different targets, and the command line's is used.
C9_Witness ==
    /\ pc = "profile"
    /\ opts.target = Some("/a")
    /\ Len(ProfileChain) = 2
    /\ ChainTarget = Some("/b")
    /\ env_target = "/c"
    /\ target_path(profile.val) = Some("/a")

\* C10: when resolve_profile fails, handle_commands returns that error at
\* once: no profile is finished, the environment is not written,
\* Executor::deploy is not called and no builder is made.
C10_ResolveErrorEndsRun ==
    (resolved.some /\ ~resolved.val.ok) =>
        /\ pc = "done"
        /\ result = Some(Err(resolved.val.err))
        /\ profile = None
        /\ environ = None
        /\ deployed = None
        /\ phase = "off"
        /\ deployment = None

\* C10 witness: the run ended on an import cycle.
C10_Witness ==
    /\ pc = "done"
    /\ resolved = Some(Err("Cycle"))
    /\ result = Some(Err("Cycle"))

\* C11: when Executor::deploy returns a Deployment whose ledger holds an entry
\* with status Failed, handle_commands returns an error.
C11_FailedItemIsError ==
    (pc = "done" /\ deployed.some /\ deployed.val.ok) =>
        ((\E p \in DOMAIN deployed.val.val.items :
              deployed.val.val.items[p].status = "Failed")
         => ~result.val.ok)

\* The places in the log, up to place n, whose entry was recorded for path p.
RecordsFor(p, n) == { k \in 1..n : log[k].target = p /\ log[k].how # "abort" }

Last(S) == CHOOSE k \in S : \A m \in S : m <= k

\* The ledger the first n turns of the loop should leave: per target path the
\* entry and status of the last turn that recorded one for it.
LedgerOf(n) ==
    LET touched == { p \in Paths : RecordsFor(p, n) # {} }
    IN  [ p \in touched |->
            LET k == Last(RecordsFor(p, n))
            IN  [kind |-> "Item", item |-> log[k].item, status |-> log[k].status] ]

\* The entry whose content the target holds after n turns: the last recorded
\* Success for it.
OwnerOf(p, n) ==
    LET S == { k \in RecordsFor(p, n) : log[k].status = "Success" }
    IN  IF S = {} THEN None ELSE Some(log[Last(S)].item)

\* Turns i < j on the same target with no turn on that target in between.
Consecutive(i, j) ==
    /\ i < j
    /\ log[i].target = log[j].target
    /\ \A k \in (i + 1)..(j - 1) : log[k].target # log[i].target

\* C12: in a finished run over two entries on the same target with priorities
\* 5 and 3, neither failing or kept for another reason, in either order, the
\* priority-5 entry is deployed, the priority-3 entry is recorded Failed as
\* superseded, and the ledger shows the priority-5 entry as Success on the
\* target.
C12_HigherPriorityOwns ==
    ( /\ phase = "consumed"
      /\ Len(log) = 2
      /\ log[1].target = log[2].target
      /\ {log[1].item.priority, log[2].item.priority} = {Some(5), Some(3)}
      /\ \A i \in 1..2 : log[i].how \in {"ok", "superseded"} )
    => LET hi == CHOOSE i \in 1..2 : log[i].item.priority = Some(5)
           lo == 3 - hi
           t == log[1].target
       IN  /\ log[hi].how = "ok"
           /\ log[lo].how = "superseded"
           /\ log[lo].status = "Failed"
           /\ t \in DOMAIN Ledger
           /\ Ledger[t] = ItemEntry(log[hi].item, "Success")

C14_AbortAllHalts ==
    \A i \in 1..Len(log) :
        log[i].how = "abort" =>
            /\ i = Len(log)
            /\ phase = "consumed"
            /\ deployment.some
            /\ is_failed(deployment.val.status)
            /\ deployment.val.items = LedgerOf(i - 1)
            /\ items = LedgerOf(i - 1)

\* C14 witness: the run was aborted at its second entry, after the first was
\* recorded Success.
C14_Witness ==
    /\ Len(log) = 2
    /\ log[1].status = "Success"
    /\ log[2].how = "abort"
    /\ deployment.some

QueryOps == {"contains", "get_item", "get_deployed_item", "get_priority", "is_deployed"}

\* C16: get_priority(p) returns none exactly when get_deployed_item(p) does, and
\* on a chain that is complete and all Success it returns the priority of the
\* chain's root Item, absent or not, also when p's own entry is a Child.
C16_PriorityOfDeployedRoot ==
    ret.op = "get_priority" =>
        /\ ret.out = Returned(None) <=> get_deployed_item(items, ret.path) = Returned(None)
        /\ ret.out = Returned(None) <=> (ret.out.kind = "return" /\ ~ChainDeployed(items, ret.path))
        /\ ChainDeployed(items, ret.path) =>
               ret.out = Returned(Some(RootItem(items, ret.path).priority))

\* C16 witness: get_priority on a Child returned the priority 3 of its parent
\* Item.
C16_Witness ==
    /\ ret.op = "get_priority"
    /\ ret.path \in DOMAIN items
    /\ items[ret.path].kind = "Child"
    /\ ret.out = Returned(Some(Some(3)))

\* C17: is_deployed(p) returns none exactly when p has no entry (contains(p) is
\* false), and otherwise whether p's own entry is Success, whatever the rest of
\* p's chain is.
C17_IsDeployedOwnStatus ==
    ret.op = "is_deployed" =>
        /\ ret.out = Returned(None) <=> ret.path \notin DOMAIN items
        /\ ret.out = Returned(None) <=> ~contains(items, ret.path)
        /\ ret.path \in DOMAIN items =>
               ret.out = Returned(Some(items[ret.path].status = "Success"))

\* C17 witness: is_deployed said true of a Success Child whose chain is not
\* deployed (its parent is Failed, missing, or the chain is a circle).
C17_Witness ==
    /\ ret.op = "is_deployed"
    /\ ret.path \in DOMAIN items
    /\ items[ret.path].kind = "Child"
    /\ ~ChainDeployed(items, ret.path)
    /\ ret.out = Returned(Some(TRUE))

\* C18: add_item(p, ..) and add_child(p, ..) change the entry of p only: every
\* other entry stays, unchanged, and no other path gets one; the five queries
\* change neither the map nor the start time.
C18_Frame ==
    [][ /\ \A q \in DOMAIN items :
               /\ q \in DOMAIN items'
               /\ items'[q] # items[q] => (ret'.op \in AddOps /\ ret'.path = q)
        /\ \A q \in DOMAIN items' \ DOMAIN items :
               ret'.op \in AddOps /\ ret'.path = q
        /\ ret'.op \in QueryOps => (items' = items /\ time_start' = time_start)
        /\ time_start' = time_start ]_vars

\* C18 witness: add_item wrote again the path a Child of another path points
\* at, and the Child is still there.
C18_Witness ==
    /\ ret.op = "add_item"
    /\ ret.replaced # "nothing"
    /\ \E q \in DOMAIN items :
           q # ret.path /\ items[q].kind = "Child" /\ items[q].parent = ret.path

\* C19: for every path p: if get_deployed_item(p) returns an entry, get_item(p)
\* returns the same entry, is_deployed(p) is Some(true), contains(p) holds and
\* get_priority(p) is not none; if get_item(p) returns none, so do
\* get_deployed_item(p) and get_priority(p).
C19_DeployedRefinesItem ==
    \A p \in Paths :
        /\ ReturnsSome(get_deployed_item(items, p)) =>
               /\ get_item(items, p) = get_deployed_item(items, p)
               /\ is_deployed(items, p) = Returned(Some(TRUE))
               /\ contains(items, p)
               /\ ReturnsSome(get_priority(items, p))
        /\ get_item(items, p) = Returned(None) =>
               /\ get_deployed_item(items, p) = Returned(None)
               /\ get_priority(items, p) = Returned(None)

\* C19 witness: get_deployed_item returned the entry of an Item on the Item's
\* own path, next to a path on which get_item returns none.
C19_Witness ==
    /\ ret.op = "get_deployed_item"
    /\ ret.path \in DOMAIN items
    /\ items[ret.path].kind = "Item"
    /\ ReturnsSome(ret.out)
    /\ \E q \in Paths : get_item(items, q) = Returned(None)

====
